---- MODULE Spec2Model ----
(***************************************************************************)
(* Mermaid diagram extraction and validation engine of parch               *)
(* (src-tauri/src/mermaid_parser.rs) and the commands that expose it       *)
(* (src-tauri/src/lib.rs).                                                 *)
(*                                                                         *)
(* A Rust &str is modelled as a sequence of one-character strings, so that *)
(* trim, lines, join, to_lowercase, starts_with, contains and the regular  *)
(* expressions are computed character by character.                        *)
(***************************************************************************)
EXTENDS Integers, Sequences, FiniteSets, TLC

VARIABLES
    pc,                     \* position of the running command
    content,                \* the command's text argument
    arg_start_line,         \* validate_mermaid_diagram: start_line.unwrap_or(1)
    lines,                  \* parse_content: content.lines().collect()
    line_idx,               \* parse_content: 0-based index of the next line
    in_code_block,          \* parse_content
    current_diagram_lines,  \* parse_content
    start_line,             \* parse_content
    diagrams,               \* parse_content: ParseResult.diagrams
    total_errors,           \* parse_content: ParseResult.total_errors
    detected,               \* detect_diagram_type: the returned String
    validation,             \* validate_diagram: the returned ValidationResult
    stats,                  \* get_parsing_stats: the returned map
    calls                   \* concurrent callers of MERMAID_PARSER: each one's call

vars == <<pc, content, arg_start_line, lines, line_idx, in_code_block,
          current_diagram_lines, start_line, diagrams, total_errors,
          detected, validation, stats, calls>>

-----------------------------------------------------------------------------
(* Bounds of the model.                                                    *)

\* parse_content is called on texts of at most MaxLines lines.
MaxLines == 5

\* detect_diagram_type and validate_diagram are called on texts of at most
\* MaxBlockLines lines.
MaxBlockLines == 2

\* usize is modelled UsizeBits wide.
UsizeBits == 12

UsizeMax == 2^UsizeBits - 1

\* A command that runs beside another one is given a text of at most
\* MaxCallLines lines.
MaxCallLines == 2

-----------------------------------------------------------------------------
(* str primitives.                                                         *)

\* the character ` , which a TLA+ string cannot hold
Backtick == "BACKTICK"

UpperCase == <<"A", "B", "C", "D", "E", "F", "G", "H", "I", "J", "K", "L", "M", "N", "O", "P", "Q", "R", "S", "T", "U", "V", "W", "X", "Y", "Z">>

LowerCase == <<"a", "b", "c", "d", "e", "f", "g", "h", "i", "j", "k", "l", "m", "n", "o", "p", "q", "r", "s", "t", "u", "v", "w", "x", "y", "z">>

Digits == {"0", "1", "2", "3", "4", "5", "6", "7", "8", "9"}

Range(s) == {s[i] : i \in 1..Len(s)}

\* char::is_whitespace, also the regex class \s
is_whitespace(c) == c \in {" ", "\t", "\n", "\r"}

\* the regex class [A-Za-z_]
IdStartChars == Range(UpperCase) \cup Range(LowerCase) \cup {"_"}

\* the regex class [A-Za-z0-9_]; on these characters also \w, which decides \b
IdChars == IdStartChars \cup Digits

IsIdStart(c) == c \in IdStartChars

IsIdChar(c) == c \in IdChars

Tail0(s, k) == SubSeq(s, k + 1, Len(s))

\* str::trim
trim(s) ==
    LET keep == {i \in 1..Len(s) : ~is_whitespace(s[i])}
    IN  IF keep = {} THEN <<>>
        ELSE SubSeq(s, CHOOSE i \in keep : \A j \in 1..(i - 1) : is_whitespace(s[j]),
                       CHOOSE i \in keep : \A j \in (i + 1)..Len(s) : is_whitespace(s[j]))

\* str::starts_with
starts_with(s, p) == Len(p) <= Len(s) /\ SubSeq(s, 1, Len(p)) = p

\* str::contains
contains(s, p) == \E k \in 0..(Len(s) - Len(p)) : SubSeq(s, k + 1, k + Len(p)) = p

\* char::to_lowercase on one character
lower_char(c) ==
    IF c \in Range(UpperCase)
    THEN LowerCase[CHOOSE i \in 1..Len(UpperCase) : UpperCase[i] = c]
    ELSE c

\* str::to_lowercase
to_lowercase(s) == [i \in 1..Len(s) |-> lower_char(s[i])]

\* the pieces of s between the "\n" characters (str::split('\n'))
RECURSIVE split_newline(_)
split_newline(s) ==
    IF \A i \in 1..Len(s) : s[i] # "\n" THEN <<s>>
    ELSE LET k == CHOOSE i \in 1..Len(s) : s[i] = "\n" /\ \A j \in 1..(i - 1) : s[j] # "\n"
         IN  <<SubSeq(s, 1, k - 1)>> \o split_newline(Tail0(s, k))

strip_cr(s) == IF Len(s) > 0 /\ s[Len(s)] = "\r" THEN SubSeq(s, 1, Len(s) - 1) ELSE s

\* str::lines: the text is cut after each "\n"; a piece that ends in "\n" loses
\* it and then one "\r" before it; a last piece without "\n" is kept as it is,
\* and an empty last piece is no line
str_lines(s) ==
    LET pieces == split_newline(s)
        n      == Len(pieces)
        kept   == IF pieces[n] = <<>> THEN n - 1 ELSE n
    IN  [i \in 1..kept |-> IF i < n THEN strip_cr(pieces[i]) ELSE pieces[i]]

\* [&str]::join
RECURSIVE join(_, _)
join(ls, sep) ==
    IF Len(ls) = 0 THEN <<>>
    ELSE IF Len(ls) = 1 THEN ls[1]
    ELSE ls[1] \o sep \o join(Tail(ls), sep)

-----------------------------------------------------------------------------
(* MermaidParser::new: the pattern table diagram_type_patterns.            *)

\* the keys of diagram_type_patterns, in the order of the insert calls
DiagramTypes ==
    <<"flowchart", "sequence", "class", "state", "er", "gantt", "pie", "journey",
      "gitgraph", "requirement", "c4context", "mindmap", "timeline">>

\* a variant of regex_prefix without the anchor ^: the keyword anywhere
regex_prefix_unanchored(line, kw) ==
    \E k \in 0..Len(line) : starts_with(Tail0(line, k), kw)

\* the regex ^\s*<kw> : is_match holds when, after a run of whitespace that
\* starts the line, the keyword follows
regex_prefix(line, kw) ==
    \E k \in 0..Len(line) :
        /\ \A i \in 1..k : is_whitespace(line[i])
        /\ starts_with(Tail0(line, k), kw)

FlowchartKeywords == {<<"g", "r", "a", "p", "h">>, <<"f", "l", "o", "w", "c", "h", "a", "r", "t">>}

Directions ==
    {<<"T", "D">>, <<"T", "B">>, <<"B", "T">>, <<"R", "L">>, <<"L", "R">>, <<"T", "O", "P">>,
     <<"B", "O", "T", "T", "O", "M">>, <<"L", "E", "F", "T">>, <<"R", "I", "G", "H", "T">>}

\* the regex ^\s*(?:graph|flowchart)\s+(?:TD|TB|BT|RL|LR|TOP|BOTTOM|LEFT|RIGHT)
regex_flowchart(line) ==
    \E k \in 0..Len(line) :
        /\ \A i \in 1..k : is_whitespace(line[i])
        /\ \E kw \in FlowchartKeywords :
            /\ starts_with(Tail0(line, k), kw)
            /\ \E m \in 1..(Len(line) - k - Len(kw)) :
                /\ \A i \in (k + Len(kw) + 1)..(k + Len(kw) + m) : is_whitespace(line[i])
                /\ \E dir \in Directions : starts_with(Tail0(line, k + Len(kw) + m), dir)

\* the keyword of each of the other twelve patterns; (?:-v2)? after stateDiagram
\* and (?:\s+title)? after pie are optional and end the pattern, so they match
\* the empty string wherever the keyword matched
PatternKeyword(diagram_type) ==
    CASE diagram_type = "sequence"    -> <<"s", "e", "q", "u", "e", "n", "c", "e", "D", "i", "a", "g", "r", "a", "m">>
      [] diagram_type = "class"       -> <<"c", "l", "a", "s", "s", "D", "i", "a", "g", "r", "a", "m">>
      [] diagram_type = "state"       -> <<"s", "t", "a", "t", "e", "D", "i", "a", "g", "r", "a", "m">>
      [] diagram_type = "er"          -> <<"e", "r", "D", "i", "a", "g", "r", "a", "m">>
      [] diagram_type = "gantt"       -> <<"g", "a", "n", "t", "t">>
      [] diagram_type = "pie"         -> <<"p", "i", "e">>
      [] diagram_type = "journey"     -> <<"j", "o", "u", "r", "n", "e", "y">>
      [] diagram_type = "gitgraph"    -> <<"g", "i", "t", "g", "r", "a", "p", "h">>
      [] diagram_type = "requirement" -> <<"r", "e", "q", "u", "i", "r", "e", "m", "e", "n", "t", "D", "i", "a", "g", "r", "a", "m">>
      [] diagram_type = "c4context"   -> <<"C", "4", "C", "o", "n", "t", "e", "x", "t">>
      [] diagram_type = "mindmap"     -> <<"m", "i", "n", "d", "m", "a", "p">>
      [] diagram_type = "timeline"    -> <<"t", "i", "m", "e", "l", "i", "n", "e">>

\* a variant of is_match whose twelve keyword patterns are written in lower case
is_match_lowercase_patterns(diagram_type, line) ==
    IF diagram_type = "flowchart" THEN regex_flowchart(line)
    ELSE regex_prefix(line, to_lowercase(PatternKeyword(diagram_type)))

\* diagram_type_patterns[diagram_type].is_match(line)
is_match(diagram_type, line) ==
    IF diagram_type = "flowchart" THEN regex_flowchart(line)
    ELSE regex_prefix(line, PatternKeyword(diagram_type))

\* the keys whose pattern matches the line
matching_types(line) == {t \in Range(DiagramTypes) : is_match(t, line)}

-----------------------------------------------------------------------------
(* MermaidParser::detect_diagram_type                                      *)

\* content.lines().next().unwrap_or("").trim()
first_line_of(text) ==
    LET ls == str_lines(text) IN trim(IF Len(ls) = 0 THEN <<>> ELSE ls[1])

\* a variant of fallback_type that tests starts_with where the code tests
\* contains (the test is_valid_diagram_declaration makes)
fallback_type_prefix_only(first_line) ==
    LET first_line_lower == to_lowercase(first_line)
        chain == <<<<"graph", "flowchart">>, <<"flowchart", "flowchart">>,
                   <<"sequencediagram", "sequence">>, <<"classdiagram", "class">>,
                   <<"statediagram", "state">>, <<"erdiagram", "er">>,
                   <<"gantt", "gantt">>, <<"pie", "pie">>>>
        word(i) == CASE i = 1 -> <<"g", "r", "a", "p", "h">> [] i = 2 -> <<"f", "l", "o", "w", "c", "h", "a", "r", "t">>
                     [] i = 3 -> <<"s", "e", "q", "u", "e", "n", "c", "e", "d", "i", "a", "g", "r", "a", "m">> [] i = 4 -> <<"c", "l", "a", "s", "s", "d", "i", "a", "g", "r", "a", "m">>
                     [] i = 5 -> <<"s", "t", "a", "t", "e", "d", "i", "a", "g", "r", "a", "m">> [] i = 6 -> <<"e", "r", "d", "i", "a", "g", "r", "a", "m">>
                     [] i = 7 -> <<"g", "a", "n", "t", "t">> [] i = 8 -> <<"p", "i", "e">>
        hits == {i \in 1..Len(chain) : starts_with(first_line_lower, word(i))}
    IN  IF hits = {} THEN "unknown"
        ELSE chain[CHOOSE i \in hits : \A j \in hits : i <= j][2]

\* the fallback detection, an if-chain on the lower-cased first line
fallback_type(first_line) ==
    LET first_line_lower == to_lowercase(first_line)
    IN  IF contains(first_line_lower, <<"g", "r", "a", "p", "h">>) \/ contains(first_line_lower, <<"f", "l", "o", "w", "c", "h", "a", "r", "t">>)
        THEN "flowchart"
        ELSE IF contains(first_line_lower, <<"s", "e", "q", "u", "e", "n", "c", "e", "d", "i", "a", "g", "r", "a", "m">>) THEN "sequence"
        ELSE IF contains(first_line_lower, <<"c", "l", "a", "s", "s", "d", "i", "a", "g", "r", "a", "m">>) THEN "class"
        ELSE IF contains(first_line_lower, <<"s", "t", "a", "t", "e", "d", "i", "a", "g", "r", "a", "m">>) THEN "state"
        ELSE IF contains(first_line_lower, <<"e", "r", "d", "i", "a", "g", "r", "a", "m">>) THEN "er"
        ELSE IF contains(first_line_lower, <<"g", "a", "n", "t", "t">>) THEN "gantt"
        ELSE IF contains(first_line_lower, <<"p", "i", "e">>) THEN "pie"
        ELSE "unknown"

\* The strings detect_diagram_type(text) can return.  The loop over
\* &self.diagram_type_patterns visits a HashMap, whose iteration order is not
\* specified: the key returned is that of whichever matching pattern is
\* visited first, so any matching key can be the one returned.
detect_diagram_type(text) ==
    LET first_line == first_line_of(text)
        matching   == matching_types(first_line)
    IN  IF matching # {} THEN matching ELSE {fallback_type(first_line)}

-----------------------------------------------------------------------------
(* MermaidParser::validate_diagram and its checks                          *)

DeclarationPrefixes ==
    {<<"g", "r", "a", "p", "h">>, <<"f", "l", "o", "w", "c", "h", "a", "r", "t">>,
     <<"s", "e", "q", "u", "e", "n", "c", "e", "d", "i", "a", "g", "r", "a", "m">>,
     <<"c", "l", "a", "s", "s", "d", "i", "a", "g", "r", "a", "m">>,
     <<"s", "t", "a", "t", "e", "d", "i", "a", "g", "r", "a", "m">>,
     <<"e", "r", "d", "i", "a", "g", "r", "a", "m">>, <<"g", "a", "n", "t", "t">>,
     <<"p", "i", "e">>, <<"j", "o", "u", "r", "n", "e", "y">>,
     <<"g", "i", "t", "g", "r", "a", "p", "h">>}

\* a variant of is_valid_diagram_declaration that tests contains where the
\* code tests starts_with (the test detect_diagram_type makes)
is_valid_diagram_declaration_contains(line) ==
    \/ \E t \in Range(DiagramTypes) : is_match(t, line)
    \/ LET line_lower == to_lowercase(line)
       IN  \E p \in DeclarationPrefixes : contains(line_lower, p)

\* MermaidParser::is_valid_diagram_declaration
is_valid_diagram_declaration(line) ==
    \/ \E t \in Range(DiagramTypes) : is_match(t, line)
    \/ LET line_lower == to_lowercase(line)
       IN  \E p \in DeclarationPrefixes : starts_with(line_lower, p)

\* the closer pushed for an opener: the pairs of `brackets`
Brackets == <<<<"(", ")">>, <<"[", "]">>, <<"{", "}">>>>

\* MermaidParser::has_unmatched_brackets from character i on, with `stack`
\* holding the expected closers (last pushed last)
RECURSIVE unmatched_from(_, _, _)
unmatched_from(line, i, stack) ==
    IF i > Len(line) THEN Len(stack) # 0
    ELSE LET ch == line[i]
         IN  IF \E b \in 1..Len(Brackets) : ch = Brackets[b][1]
             THEN LET b == CHOOSE b \in 1..Len(Brackets) : ch = Brackets[b][1]
                  IN  unmatched_from(line, i + 1, Append(stack, Brackets[b][2]))
             ELSE IF \E b \in 1..Len(Brackets) : ch = Brackets[b][2]
             THEN IF Len(stack) = 0 \/ stack[Len(stack)] # ch
                  THEN TRUE
                  ELSE unmatched_from(line, i + 1, SubSeq(stack, 1, Len(stack) - 1))
             ELSE unmatched_from(line, i + 1, stack)

\* a variant of has_unmatched_brackets that compares the number of openers
\* with the number of closers
has_unmatched_brackets_by_count(line) ==
    Cardinality({i \in 1..Len(line) : \E b \in 1..Len(Brackets) : line[i] = Brackets[b][1]})
        # Cardinality({i \in 1..Len(line) :
                          \E b \in 1..Len(Brackets) : line[i] = Brackets[b][2]})

has_unmatched_brackets(line) == unmatched_from(line, 1, <<>>)

\* the longest node id a line may carry without a warning
MaxNodeIdLen == 50

\* \b before position p: exactly one of the characters at p - 1 and p is a
\* word character
word_boundary(line, p) ==
    LET before == p > 1 /\ p - 1 <= Len(line) /\ IsIdChar(line[p - 1])
        after  == p <= Len(line) /\ IsIdChar(line[p])
    IN  before # after

\* The matches of \b([A-Za-z_][A-Za-z0-9_]*)\s*[\[\(] in the line, each as
\* <<p, e>>: group 1 is line[p..e], and whitespace and then a bracket follow
\* it.  Two matches never overlap, so captures_iter yields them all.
node_id_captures(line) ==
    LET starts  == {p \in 1..Len(line) : word_boundary(line, p) /\ IsIdStart(line[p])}
        ends(p) == {e \in p..Len(line) :
                       /\ \A i \in (p + 1)..e : IsIdChar(line[i])
                       /\ \E q \in (e + 1)..Len(line) :
                           /\ \A i \in (e + 1)..(q - 1) : is_whitespace(line[i])
                           /\ line[q] \in {"[", "("}}
    IN  UNION {{<<p, e>> : e \in ends(p)} : p \in starts}

\* a variant of has_invalid_node_id without the test of the "__" prefix
has_invalid_node_id_without_prefix_test(line) ==
    \E pe \in node_id_captures(line) :
        LET id == SubSeq(line, pe[1], pe[2])
        IN  \/ Len(id) > MaxNodeIdLen
            \/ contains(id, <<"-", "-">>)

\* MermaidParser::has_invalid_node_id
has_invalid_node_id(line) ==
    \E pe \in node_id_captures(line) :
        LET id == SubSeq(line, pe[1], pe[2])
        IN  \/ Len(id) > MaxNodeIdLen
            \/ contains(id, <<"-", "-">>)
            \/ starts_with(id, <<"_", "_">>)

EmptyDiagramMessage == <<"E", "m", "p", "t", "y", " ", "d", "i", "a", "g", "r", "a", "m", " ", "c", "o", "n", "t", "e", "n", "t">>

UnmatchedBracketsMessage == <<"U", "n", "m", "a", "t", "c", "h", "e", "d", " ", "b", "r", "a", "c", "k", "e", "t", "s", " ", "d", "e", "t", "e", "c", "t", "e", "d">>

InvalidNodeIdMessage == <<"I", "n", "v", "a", "l", "i", "d", " ", "c", "h", "a", "r", "a", "c", "t", "e", "r", "s", " ", "i", "n", " ", "n", "o", "d", "e", " ", "I", "D">>

\* format!("Invalid diagram declaration: '{}'", trimmed)
InvalidDeclarationMessage(trimmed) == <<"I", "n", "v", "a", "l", "i", "d", " ", "d", "i", "a", "g", "r", "a", "m", " ", "d", "e", "c", "l", "a", "r", "a", "t", "i", "o", "n", ":", " ", "'">> \o trimmed \o <<"'">>

SyntaxError(line, column, message, severity) ==
    [line |-> line, column |-> column, message |-> message, severity |-> severity]

\* usize addition as a build without overflow checks computes it
wrapping_add(a, b) == (a + b) % (2^UsizeBits)

\* a variant of line_errors that reports unmatched brackets as an error
line_errors_bracket_error(line, line_number) ==
    (IF has_unmatched_brackets(line)
     THEN <<SyntaxError(line_number, 1, UnmatchedBracketsMessage, "error")>> ELSE <<>>)
    \o
    (IF has_invalid_node_id(line)
     THEN <<SyntaxError(line_number, 1, InvalidNodeIdMessage, "warning")>> ELSE <<>>)

\* the two checks of the loop body for lines[line_idx + 1] (line_idx 0-based)
line_errors(line, line_number) ==
    (IF has_unmatched_brackets(line)
     THEN <<SyntaxError(line_number, 1, UnmatchedBracketsMessage, "warning")>> ELSE <<>>)
    \o
    (IF has_invalid_node_id(line)
     THEN <<SyntaxError(line_number, 1, InvalidNodeIdMessage, "warning")>> ELSE <<>>)

RECURSIVE syntax_issues(_, _, _)
syntax_issues(ls, first_line_number, line_idx0) ==
    IF line_idx0 >= Len(ls) THEN <<>>
    ELSE line_errors(ls[line_idx0 + 1], wrapping_add(first_line_number, line_idx0))
         \o syntax_issues(ls, first_line_number, line_idx0 + 1)

\* the check of the declaration on lines.first()
declaration_errors(ls, first_line_number) ==
    IF Len(ls) > 0 /\ ~is_valid_diagram_declaration(trim(ls[1]))
    THEN <<SyntaxError(first_line_number, 1, InvalidDeclarationMessage(trim(ls[1])), "error")>>
    ELSE <<>>

\* a variant of is_empty_content that does not trim
is_empty_content_untrimmed(text) == text = <<>>

\* content.trim().is_empty()
is_empty_content(text) == trim(text) = <<>>

\* MermaidParser::validate_diagram, the ValidationResult it returns
validate_diagram(text, first_line_number) ==
    IF is_empty_content(text)
    THEN [is_valid |-> FALSE,
          errors   |-> <<SyntaxError(first_line_number, 1, EmptyDiagramMessage, "error")>>]
    ELSE LET ls     == str_lines(text)
             errors == declaration_errors(ls, first_line_number)
                       \o syntax_issues(ls, first_line_number, 0)
         IN  [is_valid |-> \A i \in 1..Len(errors) : errors[i].severity # "error",
              errors   |-> errors]

\* start_line + line_idx exceeds usize::MAX for some line of the text: a build
\* with overflow checks panics there
validate_overflows(text, first_line_number) ==
    /\ ~is_empty_content(text)
    /\ first_line_number + (Len(str_lines(text)) - 1) > UsizeMax

-----------------------------------------------------------------------------
(* The texts the commands are called with.                                 *)

BoundedSeq(S, n) == UNION {[1..k -> S] : k \in 0..n}

NonEmptyBoundedSeq(S, n) == UNION {[1..k -> S] : k \in 1..n}

\* lines of the documents handed to parse_mermaid_content
ExtractLines ==
    {<<Backtick, Backtick, Backtick, "m", "e", "r", "m", "a", "i", "d">>,   \* ```mermaid
     <<" ", Backtick, Backtick, Backtick, "m", "m", "d">>,                  \* " ```mmd"
     <<Backtick, Backtick, Backtick>>,                                      \* ```
     <<"g", "r", "a", "p", "h", " ", "T", "D">>,                            \* graph TD
     <<"x", "[">>,                                                          \* x[
     <<" ", " ", "a", " ", "p", "i", "e">>,                                 \* "  a pie"
     <<>>}                                                                  \* an empty line

ExtractInputs == {join(ls, <<"\n">>) : ls \in BoundedSeq(ExtractLines, MaxLines)}

\* lines of the texts handed to detect_diagram_type
ClassifyLines ==
    {<<"g", "r", "a", "p", "h", " ", "T", "D">>,
     <<"f", "l", "o", "w", "c", "h", "a", "r", "t", " ", "L", "R">>,
     <<"s", "e", "q", "u", "e", "n", "c", "e", "D", "i", "a", "g", "r", "a", "m">>,
     <<"c", "l", "a", "s", "s", "D", "i", "a", "g", "r", "a", "m">>,
     <<"s", "t", "a", "t", "e", "D", "i", "a", "g", "r", "a", "m", "-", "v", "2">>,
     <<"e", "r", "D", "i", "a", "g", "r", "a", "m">>, <<"g", "a", "n", "t", "t">>,
     <<"p", "i", "e", " ", "t", "i", "t", "l", "e", " ", "M", "y", " ", "P", "i", "e">>,
     <<"j", "o", "u", "r", "n", "e", "y">>,
     <<"g", "i", "t", "g", "r", "a", "p", "h">>,
     <<"r", "e", "q", "u", "i", "r", "e", "m", "e", "n", "t", "D", "i", "a", "g", "r", "a", "m">>,
     <<"C", "4", "C", "o", "n", "t", "e", "x", "t">>, <<"m", "i", "n", "d", "m", "a", "p">>,
     <<"t", "i", "m", "e", "l", "i", "n", "e">>,
     <<" ", " ", "g", "r", "a", "p", "h", " ", "T", "D", " ">>, <<"g", "r", "a", "p", "h">>,
     <<"g", "r", "a", "p", "h", "T", "D">>, <<"F", "l", "o", "w", "c", "h", "a", "r", "t">>,
     <<"a", " ", "p", "i", "e">>, <<"p", "i", "e", " ", "g", "r", "a", "p", "h">>,
     <<"P", "i", "e", " ", "G", "a", "n", "t", "t">>,
     <<"G", "a", "n", "t", "t", " ", "e", "r", "D", "i", "a", "g", "r", "a", "m">>,
     <<"x", " ", "e", "r", "D", "i", "a", "g", "r", "a", "m", " ", "s", "t", "a", "t", "e", "D", "i", "a", "g", "r", "a", "m">>,
     <<"x", " ", "s", "t", "a", "t", "e", "D", "i", "a", "g", "r", "a", "m", " ", "c", "l", "a", "s", "s", "D", "i", "a", "g", "r", "a", "m">>,
     <<"x", " ", "c", "l", "a", "s", "s", "D", "i", "a", "g", "r", "a", "m", " ", "s", "e", "q", "u", "e", "n", "c", "e", "D", "i", "a", "g", "r", "a", "m">>,
     <<"x", " ", "s", "e", "q", "u", "e", "n", "c", "e", "D", "i", "a", "g", "r", "a", "m", " ", "g", "r", "a", "p", "h">>,
     <<"t", "o", "t", "a", "l", "l", "y", " ", "u", "n", "k", "n", "o", "w", "n", " ", "t", "e", "x", "t">>,
     <<" ">>, <<>>}

ClassifyInputs == {join(ls, <<"\n">>) : ls \in NonEmptyBoundedSeq(ClassifyLines, MaxBlockLines)}

LongNodeId == [i \in 1..(MaxNodeIdLen + 1) |-> "a"]

\* lines of the texts handed to validate_mermaid_diagram
ValidateLines ==
    {<<"g", "r", "a", "p", "h", " ", "T", "D">>, <<"G", "r", "a", "p", "h">>,
     <<"j", "o", "u", "r", "n", "e", "y">>, <<"m", "i", "n", "d", "m", "a", "p">>,
     <<"a", " ", "p", "i", "e">>, <<"x", "[">>, <<"A", "[", "f", "o", "o", "]">>,
     <<"_", "_", "n", "(">>,
     <<"A", " ", "-", "-", ">", " ", "B">>, LongNodeId \o <<"[", "x", "]">>, <<" ">>, <<>>,
     \* brackets: a closer alone, the wrong family, nested, interleaved
     <<"]">>, <<"(", "]">>, <<"{", "[", "(", ")", "]", "}">>, <<"(", "[", ")", "]">>,
     \* node ids: a blank before the bracket, "__" inside, after a digit,
     \* after "--"
     <<"_", "_", "n", " ", "(">>, <<"a", "_", "_", "b", "(">>, <<"1", "_", "_", "n", "(">>, <<"a", "-", "-", "b", "[", "x", "]">>}

ValidateInputs == {join(ls, <<"\n">>) : ls \in NonEmptyBoundedSeq(ValidateLines, MaxBlockLines)}

\* the start_line arguments of validate_mermaid_diagram
StartLines == {1, 3, UsizeMax}

-----------------------------------------------------------------------------
(* MermaidParser::parse_content                                            *)

is_opening_fence(trimmed) ==
    starts_with(trimmed, <<Backtick, Backtick, Backtick, "m", "e", "r", "m", "a", "i", "d">>) \/ starts_with(trimmed, <<Backtick, Backtick, Backtick, "m", "m", "d">>)

is_closing_fence(trimmed) == trimmed = <<Backtick, Backtick, Backtick>>

\* a variant of ParsedDiagram whose has_error is set by any diagnostic
ParsedDiagram_any_diagnostic(diagram_type, diagram_content, first, last, result) ==
    [diagram_type  |-> diagram_type,
     content       |-> diagram_content,
     start_line    |-> first,
     end_line      |-> last,
     has_error     |-> Len(result.errors) # 0,
     error_message |-> IF Len(result.errors) = 0 THEN <<>>
                       ELSE <<result.errors[1].message>>]

\* a variant of ParsedDiagram whose error_message is the message of the first
\* diagnostic of severity "error"
ParsedDiagram_first_error_severity(diagram_type, diagram_content, first, last, result) ==
    LET error_indices == {i \in 1..Len(result.errors) : result.errors[i].severity = "error"}
    IN  [diagram_type  |-> diagram_type,
         content       |-> diagram_content,
         start_line    |-> first,
         end_line      |-> last,
         has_error     |-> ~result.is_valid,
         error_message |-> IF error_indices = {} THEN <<>>
                           ELSE <<result.errors[CHOOSE i \in error_indices :
                                                   \A j \in error_indices : i <= j].message>>]

\* the ParsedDiagram built from a validated block; the id (a fresh random
\* UUID) is read by no operation and is left out.  error_message is an
\* Option: <<>> is None, <<m>> is Some(m)
ParsedDiagram(diagram_type, diagram_content, first, last, result) ==
    [diagram_type  |-> diagram_type,
     content       |-> diagram_content,
     start_line    |-> first,
     end_line      |-> last,
     has_error     |-> ~result.is_valid,
     error_message |-> IF Len(result.errors) = 0 THEN <<>>
                       ELSE <<result.errors[1].message>>]

\* a variant of counted_errors that counts the diagnostics of valid blocks
counted_errors_of_valid(result) == IF result.is_valid THEN Len(result.errors) ELSE 0

\* what a validated block adds to total_errors
counted_errors(result) == IF ~result.is_valid THEN Len(result.errors) ELSE 0

\* a variant of content_start_line: the 1-indexed number of the fence line
\* itself (what parse_content keeps in _block_start_line)
content_start_line_at_fence(idx) == idx + 1

\* start_line for the block opened by the fence at 0-based index idx
content_start_line(idx) == idx + 2

\* a variant of unclosed_end_line: the 0-based index of the last line
unclosed_end_line_last_index(ls) == Len(ls) - 1

\* a variant of unclosed_end_line: the number of the line after the last
unclosed_end_line_past_the_end(ls) == Len(ls) + 1

\* end_line of the block still open when the input ends
unclosed_end_line(ls) == Len(ls)

\* a variant of InitialScan that starts the scan in block mode
InitialScan_in_code_block ==
    [in_code_block         |-> TRUE,
     current_diagram_lines |-> <<>>,
     start_line            |-> 0,
     diagrams              |-> <<>>,
     total_errors          |-> 0]

\* the local variables of parse_content before the loop
InitialScan ==
    [in_code_block         |-> FALSE,
     current_diagram_lines |-> <<>>,
     start_line            |-> 0,
     diagrams              |-> <<>>,
     total_errors          |-> 0]

\* a variant of open_fence that keeps the lines collected so far
open_fence_keeps_lines(st, idx) ==
    [st EXCEPT !.in_code_block = TRUE,
               !.start_line = content_start_line(idx)]

\* a variant of open_fence that leaves start_line as it was
open_fence_keeps_start_line(st, idx) ==
    [st EXCEPT !.in_code_block = TRUE,
               !.current_diagram_lines = <<>>]

\* a variant of open_fence that ignores an opening fence inside a block
open_fence_unless_in_block(st, idx) ==
    IF st.in_code_block THEN st
    ELSE [st EXCEPT !.in_code_block = TRUE,
                    !.start_line = content_start_line(idx),
                    !.current_diagram_lines = <<>>]

\* loop body, first branch: the line at idx opens a block
open_fence(st, idx) ==
    [st EXCEPT !.in_code_block = TRUE,
               !.start_line = content_start_line(idx),
               !.current_diagram_lines = <<>>]

\* loop body, second branch: the line at idx closes the block.  The values
\* the locals can have afterwards, one for each string detect_diagram_type
\* can return
close_fence(st, idx) ==
    LET diagram_content == join(st.current_diagram_lines, <<"\n">>)
        result          == validate_diagram(diagram_content, st.start_line)
        closed          == [st EXCEPT !.in_code_block = FALSE,
                                      !.current_diagram_lines = <<>>]
    IN  IF Len(st.current_diagram_lines) # 0
        THEN {[closed EXCEPT
                 !.total_errors = @ + counted_errors(result),
                 !.diagrams = Append(@, ParsedDiagram(diagram_type, diagram_content,
                                                      st.start_line, idx, result))] :
              diagram_type \in detect_diagram_type(diagram_content)}
        ELSE {closed}

\* loop body, the rest: a line inside a block is collected
content_line(st, line) ==
    IF st.in_code_block
    THEN [st EXCEPT !.current_diagram_lines = Append(@, line)]
    ELSE st

\* after the loop: the block that was never closed
unclosed_block(st, ls) ==
    LET diagram_content == join(st.current_diagram_lines, <<"\n">>)
        result          == validate_diagram(diagram_content, st.start_line)
    IN  IF st.in_code_block /\ Len(st.current_diagram_lines) # 0
        THEN {[st EXCEPT
                 !.total_errors = @ + counted_errors(result),
                 !.diagrams = Append(@, ParsedDiagram(diagram_type, diagram_content,
                                                      st.start_line,
                                                      unclosed_end_line(ls), result))] :
              diagram_type \in detect_diagram_type(diagram_content)}
        ELSE {st}

\* one iteration of the loop
scan_line(st, line, idx) ==
    IF is_opening_fence(trim(line)) THEN {open_fence(st, idx)}
    ELSE IF st.in_code_block /\ is_closing_fence(trim(line)) THEN close_fence(st, idx)
    ELSE {content_line(st, line)}

\* the loop from index idx on, then the code after the loop
RECURSIVE scan_from(_, _, _)
scan_from(ls, idx, st) ==
    IF idx >= Len(ls) THEN unclosed_block(st, ls)
    ELSE UNION {scan_from(ls, idx + 1, next) : next \in scan_line(st, ls[idx + 1], idx)}

\* the results parse_content can return for the lines ls, as the final locals
\* (diagrams and total_errors are the ParseResult; parsing_time_ms, wall-clock
\* time, is left out)
parse_lines(ls) == scan_from(ls, 0, InitialScan)

parse_content(text) == parse_lines(str_lines(text))

\* a variant of type_counts that inserts 1 for a dialect instead of counting
type_counts_inserted_once(ds) ==
    [t \in {ds[i].diagram_type : i \in 1..Len(ds)} |-> 1]

\* the HashMap built by the loop over parse_result.diagrams: an entry for each
\* diagram_type that occurs, counting its records
type_counts(ds) ==
    [t \in {ds[i].diagram_type : i \in 1..Len(ds)} |->
        Cardinality({i \in 1..Len(ds) : ds[i].diagram_type = t})]

\* MermaidParser::get_parsing_stats, the maps it can return, one for each
\* result of parse_content (the entry parsing_time_ms, wall-clock time, is
\* left out)
get_parsing_stats(text) ==
    {[total_diagrams |-> Len(parse_result.diagrams),
      total_errors   |-> parse_result.total_errors,
      diagram_types  |-> type_counts(parse_result.diagrams)] :
     parse_result \in parse_content(text)}

\* lines of the texts of concurrent commands
ConcurrentLines == {<<Backtick, Backtick, Backtick, "m", "e", "r", "m", "a", "i", "d">>, <<"g", "r", "a", "p", "h", " ", "T", "D">>, <<"x", "[">>}

ConcurrentInputs == {join(ls, <<"\n">>) : ls \in BoundedSeq(ConcurrentLines, MaxCallLines)}

\* the start_line arguments of concurrent validate_mermaid_diagram commands
ConcurrentStartLines == {1, 3}

\* the tasks that run commands on MERMAID_PARSER at the same time
Callers == {1, 2}

-----------------------------------------------------------------------------
(* The state machine: one command runs, parse_content line by line.        *)

\* the locals of the running parse_content
Scan ==
    [in_code_block         |-> in_code_block,
     current_diagram_lines |-> current_diagram_lines,
     start_line            |-> start_line,
     diagrams              |-> diagrams,
     total_errors          |-> total_errors]

ScanBecomes(st) ==
    /\ in_code_block' = st.in_code_block
    /\ current_diagram_lines' = st.current_diagram_lines
    /\ start_line' = st.start_line
    /\ diagrams' = st.diagrams
    /\ total_errors' = st.total_errors

CurrentLine == lines[line_idx + 1]

NoValidation == [is_valid |-> TRUE, errors |-> <<>>]

NoStats == [total_diagrams |-> 0, total_errors |-> 0, diagram_types |-> [t \in {} |-> 0]]

\* a caller that runs no command
IdleCall ==
    [pc             |-> "idle",
     kind           |-> "none",
     content        |-> <<>>,
     arg_start_line |-> 1,
     lines          |-> <<>>,
     line_idx       |-> 0,
     scan           |-> InitialScan,
     result         |-> <<>>]

Init ==
    /\ pc = "idle"
    /\ content = <<>>
    /\ arg_start_line = 1
    /\ lines = <<>>
    /\ line_idx = 0
    /\ in_code_block = FALSE
    /\ current_diagram_lines = <<>>
    /\ start_line = 0
    /\ diagrams = <<>>
    /\ total_errors = 0
    /\ detected = ""
    /\ validation = NoValidation
    /\ stats = NoStats
    /\ calls = [c \in Callers |-> IdleCall]

\* lib.rs parse_mermaid_content -> parse_content, up to the for loop
ParseContent ==
    /\ pc = "idle"
    /\ \E text \in ExtractInputs :
        /\ content' = text
        /\ lines' = str_lines(text)
    /\ pc' = "scan"
    /\ line_idx' = 0
    /\ ScanBecomes(InitialScan)
    /\ UNCHANGED <<arg_start_line, detected, validation, stats, calls>>

\* an iteration that takes the first branch
OpenFence ==
    /\ pc = "scan"
    /\ line_idx < Len(lines)
    /\ is_opening_fence(trim(CurrentLine))
    /\ ScanBecomes(open_fence(Scan, line_idx))
    /\ line_idx' = line_idx + 1
    /\ UNCHANGED <<pc, content, arg_start_line, lines, detected, validation, stats, calls>>

\* an iteration that takes the second branch
CloseFence ==
    /\ pc = "scan"
    /\ line_idx < Len(lines)
    /\ ~is_opening_fence(trim(CurrentLine))
    /\ in_code_block /\ is_closing_fence(trim(CurrentLine))
    /\ \E next \in close_fence(Scan, line_idx) : ScanBecomes(next)
    /\ line_idx' = line_idx + 1
    /\ UNCHANGED <<pc, content, arg_start_line, lines, detected, validation, stats, calls>>

\* an iteration that takes neither
ContentLine ==
    /\ pc = "scan"
    /\ line_idx < Len(lines)
    /\ ~is_opening_fence(trim(CurrentLine))
    /\ ~(in_code_block /\ is_closing_fence(trim(CurrentLine)))
    /\ ScanBecomes(content_line(Scan, CurrentLine))
    /\ line_idx' = line_idx + 1
    /\ UNCHANGED <<pc, content, arg_start_line, lines, detected, validation, stats, calls>>

\* the loop is over: the unclosed block, and the ParseResult is returned
EndOfInput ==
    /\ pc = "scan"
    /\ line_idx = Len(lines)
    /\ \E next \in unclosed_block(Scan, lines) : ScanBecomes(next)
    /\ pc' = "parsed"
    /\ UNCHANGED <<content, arg_start_line, lines, line_idx, detected, validation, stats,
                   calls>>

\* lib.rs detect_diagram_type -> MermaidParser::detect_diagram_type
DetectDiagramType ==
    /\ pc = "idle"
    /\ \E text \in ClassifyInputs :
        /\ content' = text
        /\ detected' \in detect_diagram_type(text)
    /\ pc' = "detected"
    /\ UNCHANGED <<arg_start_line, lines, line_idx, in_code_block, current_diagram_lines,
                   start_line, diagrams, total_errors, validation, stats,
                   calls>>

\* lib.rs validate_mermaid_diagram -> MermaidParser::validate_diagram, returning
ValidateDiagram ==
    /\ pc = "idle"
    /\ \E text \in ValidateInputs, first \in StartLines :
        /\ content' = text
        /\ arg_start_line' = first
        /\ validation' = validate_diagram(text, first)
    /\ pc' = "validated"
    /\ UNCHANGED <<lines, line_idx, in_code_block, current_diagram_lines, start_line,
                   diagrams, total_errors, detected, stats, calls>>

\* the same call in a build with overflow checks, when start_line + line_idx
\* overflows: the thread panics and nothing is returned
ValidatePanic ==
    /\ pc = "idle"
    /\ \E text \in ValidateInputs, first \in StartLines :
        /\ validate_overflows(text, first)
        /\ content' = text
        /\ arg_start_line' = first
    /\ pc' = "panicked"
    /\ UNCHANGED <<lines, line_idx, in_code_block, current_diagram_lines, start_line,
                   diagrams, total_errors, detected, validation, stats,
                   calls>>

\* lib.rs get_parsing_stats -> MermaidParser::get_parsing_stats
GetParsingStats ==
    /\ pc = "idle"
    /\ \E text \in ExtractInputs :
        /\ content' = text
        /\ stats' \in get_parsing_stats(text)
    /\ pc' = "stats"
    /\ UNCHANGED <<arg_start_line, lines, line_idx, in_code_block, current_diagram_lines,
                   start_line, diagrams, total_errors, detected, validation,
                   calls>>

\* a variant of CallerScan in which the locals of parse_content are one
\* shared set, those of caller 1
CallerScan_shared(c) == calls[1].scan

\* the locals of the parse_content that caller c runs: they live in the frame
\* of that call
CallerScan(c) == calls[c].scan

\* the application serves its commands, each invocation on a task of its
\* own, so that calls on MERMAID_PARSER run at the same time
ServeConcurrently ==
    /\ pc = "idle"
    /\ pc' = "concurrent"
    /\ UNCHANGED <<content, arg_start_line, lines, line_idx, in_code_block,
                   current_diagram_lines, start_line, diagrams, total_errors, detected,
                   validation, stats, calls>>

\* caller c: parse_mermaid_content -> parse_content, up to the for loop
CallParseContent(c) ==
    /\ pc = "concurrent"
    /\ calls[c].pc = "idle"
    /\ \E text \in ConcurrentInputs :
        calls' = [calls EXCEPT ![c] =
                    [IdleCall EXCEPT !.pc = "scan",
                                     !.kind = "parse",
                                     !.content = text,
                                     !.lines = str_lines(text)]]
    /\ UNCHANGED <<pc, content, arg_start_line, lines, line_idx, in_code_block,
                   current_diagram_lines, start_line, diagrams, total_errors, detected,
                   validation, stats>>

\* caller c: one iteration of the loop of parse_content
CallScanLine(c) ==
    /\ pc = "concurrent"
    /\ calls[c].pc = "scan"
    /\ calls[c].line_idx < Len(calls[c].lines)
    /\ \E next \in scan_line(CallerScan(c), calls[c].lines[calls[c].line_idx + 1],
                             calls[c].line_idx) :
        calls' = [calls EXCEPT ![c].scan = next, ![c].line_idx = @ + 1]
    /\ UNCHANGED <<pc, content, arg_start_line, lines, line_idx, in_code_block,
                   current_diagram_lines, start_line, diagrams, total_errors, detected,
                   validation, stats>>

\* caller c: the loop is over, the unclosed block, and the ParseResult returns
CallEndOfInput(c) ==
    /\ pc = "concurrent"
    /\ calls[c].pc = "scan"
    /\ calls[c].line_idx = Len(calls[c].lines)
    /\ \E next \in unclosed_block(CallerScan(c), calls[c].lines) :
        calls' = [calls EXCEPT ![c].scan = next,
                               ![c].pc = "done",
                               ![c].result = [diagrams     |-> next.diagrams,
                                              total_errors |-> next.total_errors]]
    /\ UNCHANGED <<pc, content, arg_start_line, lines, line_idx, in_code_block,
                   current_diagram_lines, start_line, diagrams, total_errors, detected,
                   validation, stats>>

\* caller c: detect_diagram_type, which reads the pattern table only
CallDetectDiagramType(c) ==
    /\ pc = "concurrent"
    /\ calls[c].pc = "idle"
    /\ \E text \in ConcurrentInputs :
        \E diagram_type \in detect_diagram_type(text) :
            calls' = [calls EXCEPT ![c] =
                        [IdleCall EXCEPT !.pc = "done",
                                         !.kind = "detect",
                                         !.content = text,
                                         !.result = diagram_type]]
    /\ UNCHANGED <<pc, content, arg_start_line, lines, line_idx, in_code_block,
                   current_diagram_lines, start_line, diagrams, total_errors, detected,
                   validation, stats>>

\* caller c: validate_mermaid_diagram, which reads the pattern table only
CallValidateDiagram(c) ==
    /\ pc = "concurrent"
    /\ calls[c].pc = "idle"
    /\ \E text \in ConcurrentInputs, first \in ConcurrentStartLines :
        calls' = [calls EXCEPT ![c] =
                    [IdleCall EXCEPT !.pc = "done",
                                     !.kind = "validate",
                                     !.content = text,
                                     !.arg_start_line = first,
                                     !.result = validate_diagram(text, first)]]
    /\ UNCHANGED <<pc, content, arg_start_line, lines, line_idx, in_code_block,
                   current_diagram_lines, start_line, diagrams, total_errors, detected,
                   validation, stats>>

\* caller c: the command has returned; the caller may run another
CallReturn(c) ==
    /\ pc = "concurrent"
    /\ calls[c].pc = "done"
    /\ calls' = [calls EXCEPT ![c] = IdleCall]
    /\ UNCHANGED <<pc, content, arg_start_line, lines, line_idx, in_code_block,
                   current_diagram_lines, start_line, diagrams, total_errors, detected,
                   validation, stats>>

NextExtract == ParseContent \/ OpenFence \/ CloseFence \/ ContentLine \/ EndOfInput

NextClassify == DetectDiagramType

NextValidate == ValidateDiagram \/ ValidatePanic

NextStats == GetParsingStats

NextConcurrent ==
    \/ ServeConcurrently
    \/ \E c \in Callers :
        \/ CallParseContent(c)
        \/ CallScanLine(c)
        \/ CallEndOfInput(c)
        \/ CallDetectDiagramType(c)
        \/ CallValidateDiagram(c)
        \/ CallReturn(c)

Next == NextExtract \/ NextClassify \/ NextValidate \/ NextStats \/ NextConcurrent

Spec == Init /\ [][Next]_vars

SpecExtract == Init /\ [][NextExtract]_vars

SpecClassify == Init /\ [][NextClassify]_vars

SpecValidate == Init /\ [][NextValidate]_vars

SpecStats == Init /\ [][NextStats]_vars

SpecConcurrent == Init /\ [][NextConcurrent]_vars

-----------------------------------------------------------------------------
(* Properties of parse_content, stated of the ParseResult it returns.      *)

\* the number of diagnostics of severity "error" in a ValidationResult
error_diagnostics(result) ==
    Cardinality({i \in 1..Len(result.errors) : result.errors[i].severity = "error"})

\* validate applied to a record, as a caller would apply it
revalidate(diagram) == validate_diagram(diagram.content, diagram.start_line)

RECURSIVE sum_error_diagnostics(_)
sum_error_diagnostics(ds) ==
    IF Len(ds) = 0 THEN 0
    ELSE error_diagnostics(revalidate(ds[1])) + sum_error_diagnostics(Tail(ds))

\* lines[n] for the 1-indexed line number n
IsOpeningLine(n) == is_opening_fence(trim(lines[n]))

IsClosingLine(n) == is_closing_fence(trim(lines[n]))

\* C1: total_errors equals the sum, over the returned records, of the number
\* of diagnostics of severity "error" that validate produces for the record;
\* warnings are never counted.
C1_TotalErrorsCountsErrorDiagnostics ==
    pc = "parsed" => total_errors = sum_error_diagnostics(diagrams)

\* a fenced block at lines o..c: opening fence at o, closing fence at c, at
\* least one line between them, and no fence line between them
FencedBlock(o, c) ==
    /\ IsOpeningLine(o)
    /\ IsClosingLine(c) /\ ~IsOpeningLine(c)
    /\ c > o + 1
    /\ \A k \in (o + 1)..(c - 1) : ~IsOpeningLine(k) /\ ~IsClosingLine(k)

\* C2: a fenced block with opening fence on line o and closing fence on line
\* c yields exactly one record, with start_line = o + 1 and end_line = c - 1;
\* when its first line is a flowchart declaration such as "graph TD" the
\* record has dialect "flowchart" and has_error = FALSE.
C2_FencedBlockRecord ==
    pc = "parsed" =>
        \A o \in 1..Len(lines), c \in 1..Len(lines) :
            FencedBlock(o, c) =>
                LET recs == {i \in 1..Len(diagrams) :
                                diagrams[i].start_line \in o..c \/ diagrams[i].end_line \in o..c}
                IN  /\ Cardinality(recs) = 1
                    /\ \A i \in recs :
                        /\ diagrams[i].start_line = o + 1
                        /\ diagrams[i].end_line = c - 1
                        /\ regex_flowchart(trim(lines[o + 1])) =>
                               /\ diagrams[i].diagram_type = "flowchart"
                               /\ ~diagrams[i].has_error

\* C2 witness: a parse that returned with a fenced flowchart block in the input
C2_Witness ==
    /\ pc = "parsed"
    /\ \E o \in 1..Len(lines), c \in 1..Len(lines) :
        /\ FencedBlock(o, c)
        /\ o > 1
        /\ regex_flowchart(trim(lines[o + 1]))
        /\ \E i \in 1..Len(diagrams) : diagrams[i].start_line = o + 1

\* the dialect, line range and validity of each record, in order
Outline(ds) ==
    [i \in 1..Len(ds) |->
        <<ds[i].diagram_type, ds[i].start_line, ds[i].end_line, ds[i].has_error>>]

\* C3: when the input ends inside a block that collected at least one line,
\* a record is still produced for it, with end_line = the number of input
\* lines, and it is the record (dialect, content, start_line, has_error,
\* error_message) that the same lines followed by a closing-fence line
\* produce; being unclosed adds no diagnostic and nothing to total_errors.
C3_UnclosedBlockAsIfClosed ==
    (pc = "parsed" /\ in_code_block /\ Len(current_diagram_lines) # 0) =>
        /\ Len(diagrams) > 0
        /\ diagrams[Len(diagrams)].end_line = Len(lines)
        /\ \A closed \in parse_lines(Append(lines, <<Backtick, Backtick, Backtick>>)) :
            /\ Len(closed.diagrams) = Len(diagrams)
            /\ LET a == closed.diagrams[Len(diagrams)]
                   b == diagrams[Len(diagrams)]
               IN  /\ a.diagram_type = b.diagram_type
                   /\ a.content = b.content
                   /\ a.start_line = b.start_line
                   /\ a.end_line = b.end_line
                   /\ a.has_error = b.has_error
                   /\ a.error_message = b.error_message
            /\ closed.total_errors = total_errors

\* C3 witness: a parse that returned with a non-empty block still open, after
\* an earlier block was closed
C3_Witness ==
    /\ pc = "parsed"
    /\ in_code_block
    /\ Len(diagrams) = 2
    /\ diagrams[2].has_error
    /\ diagrams[2].content = join(current_diagram_lines, <<"\n">>)

-----------------------------------------------------------------------------
(* Properties of detect_diagram_type.                                      *)

\* C4: classification and extraction are deterministic.  Whatever order the
\* pattern table is visited in, detect_diagram_type can return one string
\* only, and every run of parse_content on the same text returns the same
\* sequence of dialect, start_line, end_line and has_error.
C4_Deterministic ==
    /\ pc = "detected" => detect_diagram_type(content) = {detected}
    /\ pc = "parsed" =>
           \A other \in parse_content(content) : Outline(other.diagrams) = Outline(diagrams)

\* C4 witness: a parse that returned two records of different dialects
C4_Witness ==
    /\ pc = "parsed"
    /\ Len(diagrams) = 2
    /\ diagrams[1].diagram_type # diagrams[2].diagram_type

\* the first line of the text handed to detect_diagram_type, trimmed
TrimmedFirstLine == IF Len(str_lines(content)) = 0 THEN <<>> ELSE trim(str_lines(content)[1])

\* the signatures as the specification lists them: keyword and dialect
ListedSignatures ==
    {<<<<"s", "e", "q", "u", "e", "n", "c", "e", "D", "i", "a", "g", "r", "a", "m">>, "sequence">>, <<<<"c", "l", "a", "s", "s", "D", "i", "a", "g", "r", "a", "m">>, "class">>,
     <<<<"s", "t", "a", "t", "e", "D", "i", "a", "g", "r", "a", "m">>, "state">>, <<<<"s", "t", "a", "t", "e", "D", "i", "a", "g", "r", "a", "m", "-", "v", "2">>, "state">>,
     <<<<"e", "r", "D", "i", "a", "g", "r", "a", "m">>, "er">>, <<<<"g", "a", "n", "t", "t">>, "gantt">>, <<<<"p", "i", "e">>, "pie">>,
     <<<<"j", "o", "u", "r", "n", "e", "y">>, "journey">>, <<<<"g", "i", "t", "g", "r", "a", "p", "h">>, "gitgraph">>,
     <<<<"r", "e", "q", "u", "i", "r", "e", "m", "e", "n", "t", "D", "i", "a", "g", "r", "a", "m">>, "requirement">>, <<<<"C", "4", "C", "o", "n", "t", "e", "x", "t">>, "c4context">>,
     <<<<"m", "i", "n", "d", "m", "a", "p">>, "mindmap">>, <<<<"t", "i", "m", "e", "l", "i", "n", "e">>, "timeline">>}

\* graph or flowchart, whitespace, and a direction token start the line
ListedFlowchart(line) ==
    \E kw \in {<<"g", "r", "a", "p", "h">>, <<"f", "l", "o", "w", "c", "h", "a", "r", "t">>} :
        /\ starts_with(line, kw)
        /\ \E m \in 1..(Len(line) - Len(kw)) :
            /\ \A i \in (Len(kw) + 1)..(Len(kw) + m) : is_whitespace(line[i])
            /\ \E dir \in {<<"T", "D">>, <<"T", "B">>, <<"B", "T">>, <<"R", "L">>, <<"L", "R">>,
                            <<"T", "O", "P">>, <<"B", "O", "T", "T", "O", "M">>,
                            <<"L", "E", "F", "T">>, <<"R", "I", "G", "H", "T">>} :
                starts_with(Tail0(line, Len(kw) + m), dir)

\* the dialects whose listed signature the line matches
ListedDialects(line) ==
    {sig[2] : sig \in {s \in ListedSignatures : starts_with(line, s[1])}}
    \cup (IF ListedFlowchart(line) THEN {"flowchart"} ELSE {})

\* C5: when the trimmed first line matches one of the thirteen dialect
\* signatures, detect_diagram_type returns that signature's dialect.
C5_SignatureDecides ==
    pc = "detected" => \A dialect \in ListedDialects(TrimmedFirstLine) : detected = dialect

\* C5 witness: the first line, with blanks around it, is a flowchart declaration
C5_Witness ==
    /\ pc = "detected"
    /\ "flowchart" \in ListedDialects(TrimmedFirstLine)
    /\ Len(str_lines(content)) = 2
    /\ str_lines(content)[1] # TrimmedFirstLine

\* the fallback keywords in the order the specification lists them
ListedFallbacks ==
    <<<<<<"g", "r", "a", "p", "h">>, "flowchart">>, <<<<"f", "l", "o", "w", "c", "h", "a", "r", "t">>, "flowchart">>,
      <<<<"s", "e", "q", "u", "e", "n", "c", "e", "d", "i", "a", "g", "r", "a", "m">>, "sequence">>, <<<<"c", "l", "a", "s", "s", "d", "i", "a", "g", "r", "a", "m">>, "class">>,
      <<<<"s", "t", "a", "t", "e", "d", "i", "a", "g", "r", "a", "m">>, "state">>, <<<<"e", "r", "d", "i", "a", "g", "r", "a", "m">>, "er">>,
      <<<<"g", "a", "n", "t", "t">>, "gantt">>, <<<<"p", "i", "e">>, "pie">>>>

\* the dialect of the first listed fallback keyword the lower-cased line holds
ListedFallback(line) ==
    LET hits == {i \in 1..Len(ListedFallbacks) :
                    contains(to_lowercase(line), ListedFallbacks[i][1])}
    IN  IF hits = {} THEN "unknown"
        ELSE ListedFallbacks[CHOOSE i \in hits : \A j \in hits : i <= j][2]

\* C6: when no signature matches the first line, detect_diagram_type returns
\* the dialect of the first fallback keyword found in the lower-cased first
\* line, "unknown" when there is none; when a signature matches, the result
\* is that signature's dialect whatever the fallback would say.
C6_FallbackOrder ==
    pc = "detected" =>
        IF ListedDialects(TrimmedFirstLine) = {}
        THEN detected = ListedFallback(TrimmedFirstLine)
        ELSE detected \in ListedDialects(TrimmedFirstLine)

\* C6 witness: no signature matches and two fallback keywords are in the line
C6_Witness ==
    /\ pc = "detected"
    /\ ListedDialects(TrimmedFirstLine) = {}
    /\ contains(to_lowercase(TrimmedFirstLine), <<"p", "i", "e">>)
    /\ contains(to_lowercase(TrimmedFirstLine), <<"g", "a", "n", "t", "t">>)
    /\ detected = "gantt"

\* C6 witness of the other case: a signature matches and the fallback would
\* give another dialect
C6_SignatureBeforeFallback ==
    /\ pc = "detected"
    /\ ListedDialects(TrimmedFirstLine) = {"pie"}
    /\ ListedFallback(TrimmedFirstLine) = "flowchart"
    /\ detected = "pie"

\* C7: detect_diagram_type(text) is detect_diagram_type(L) for L the first
\* line of text that is not blank; no other line changes the result.
C7_FirstNonBlankLineDecides ==
    pc = "detected" =>
        LET ls       == str_lines(content)
            nonblank == {i \in 1..Len(ls) : trim(ls[i]) # <<>>}
        IN  nonblank # {} =>
                detected \in detect_diagram_type(ls[CHOOSE i \in nonblank : \A j \in nonblank : i <= j])

-----------------------------------------------------------------------------
(* Properties of validate_diagram.                                         *)

\* the first line of the text handed to validate_diagram, trimmed
ValidatedFirstLine == trim(str_lines(content)[1])

\* the prefixes the specification lists for the loosened declaration check
ListedPrefixes ==
    {<<"g", "r", "a", "p", "h">>, <<"f", "l", "o", "w", "c", "h", "a", "r", "t">>, <<"s", "e", "q", "u", "e", "n", "c", "e", "d", "i", "a", "g", "r", "a", "m">>, <<"c", "l", "a", "s", "s", "d", "i", "a", "g", "r", "a", "m">>, <<"s", "t", "a", "t", "e", "d", "i", "a", "g", "r", "a", "m">>,
     <<"e", "r", "d", "i", "a", "g", "r", "a", "m">>, <<"g", "a", "n", "t", "t">>, <<"p", "i", "e">>, <<"j", "o", "u", "r", "n", "e", "y">>, <<"g", "i", "t", "g", "r", "a", "p", "h">>}

\* the line is accepted as a diagram declaration: it matches a listed
\* signature or begins, case-insensitively, with a listed prefix
ListedDeclaration(line) ==
    \/ ListedDialects(line) # {}
    \/ \E p \in ListedPrefixes : starts_with(to_lowercase(line), p)

\* C8: for a text that is empty after trimming, validate returns is_valid =
\* FALSE and exactly one diagnostic: severity "error", message "Empty diagram
\* content", line = start_line, column = 1; no other check has run.
C8_EmptyContent ==
    (pc = "validated" /\ trim(content) = <<>>) =>
        validation =
            [is_valid |-> FALSE,
             errors   |-> <<[line     |-> arg_start_line,
                             column   |-> 1,
                             message  |-> <<"E", "m", "p", "t", "y", " ", "d", "i", "a", "g", "r", "a", "m", " ", "c", "o", "n", "t", "e", "n", "t">>,
                             severity |-> "error"]>>]

\* C8 witness: validate returned for a text of blanks only, start_line = 3
C8_Witness ==
    /\ pc = "validated"
    /\ trim(content) = <<>>
    /\ content # <<>>
    /\ arg_start_line = 3

\* C9: is_valid is FALSE exactly when the text is empty after trimming or its
\* first line is not accepted as a declaration; there is at most one
\* diagnostic of severity "error"; bracket and node-identifier findings are
\* warnings and never make the text invalid.
C9_InvalidOnlyByEmptyOrDeclaration ==
    pc = "validated" =>
        /\ ~validation.is_valid <=>
               (trim(content) = <<>> \/ ~ListedDeclaration(ValidatedFirstLine))
        /\ error_diagnostics(validation) <= 1
        /\ \A i \in 1..Len(validation.errors) :
               validation.errors[i].message \in {<<"U", "n", "m", "a", "t", "c", "h", "e", "d", " ", "b", "r", "a", "c", "k", "e", "t", "s", " ", "d", "e", "t", "e", "c", "t", "e", "d">>,
                                                 <<"I", "n", "v", "a", "l", "i", "d", " ", "c", "h", "a", "r", "a", "c", "t", "e", "r", "s", " ", "i", "n", " ", "n", "o", "d", "e", " ", "I", "D">>}
                   => validation.errors[i].severity = "warning"

\* C9 witness: a valid text with a bracket warning and a node-identifier warning
C9_Witness ==
    /\ pc = "validated"
    /\ validation.is_valid
    /\ \E i, j \in 1..Len(validation.errors) :
        /\ validation.errors[i].message = <<"U", "n", "m", "a", "t", "c", "h", "e", "d", " ", "b", "r", "a", "c", "k", "e", "t", "s", " ", "d", "e", "t", "e", "c", "t", "e", "d">>
        /\ validation.errors[j].message = <<"I", "n", "v", "a", "l", "i", "d", " ", "c", "h", "a", "r", "a", "c", "t", "e", "r", "s", " ", "i", "n", " ", "n", "o", "d", "e", " ", "I", "D">>

\* the declaration error validate emits for the first line
DeclarationError ==
    [line     |-> arg_start_line,
     column   |-> 1,
     message  |-> <<"I", "n", "v", "a", "l", "i", "d", " ", "d", "i", "a", "g", "r", "a", "m", " ", "d", "e", "c", "l", "a", "r", "a", "t", "i", "o", "n", ":", " ", "'">> \o ValidatedFirstLine \o <<"'">>,
     severity |-> "error"]

\* C10: for a text that is not blank, validate emits the error "Invalid
\* diagram declaration: '<first line>'" at (start_line, 1) if and only if the
\* trimmed first line matches none of the thirteen signatures and begins with
\* none of the ten listed prefixes; no other diagnostic carries that message.
C10_DeclarationError ==
    (pc = "validated" /\ trim(content) # <<>>) =>
        LET emitted == \E i \in 1..Len(validation.errors) :
                           validation.errors[i] = DeclarationError
            similar == {i \in 1..Len(validation.errors) :
                           starts_with(validation.errors[i].message,
                                       <<"I", "n", "v", "a", "l", "i", "d", " ", "d", "i", "a", "g", "r", "a", "m", " ", "d", "e", "c", "l", "a", "r", "a", "t", "i", "o", "n">>)}
        IN  /\ emitted <=> ~ListedDeclaration(ValidatedFirstLine)
            /\ \A i \in similar : validation.errors[i] = DeclarationError
            /\ Cardinality(similar) <= 1

\* C10 witness: the error is emitted for a first line that holds a listed
\* keyword, but not at its start
C10_Witness ==
    /\ pc = "validated"
    /\ trim(content) # <<>>
    /\ contains(ValidatedFirstLine, <<"p", "i", "e">>)
    /\ validation.errors[1] = DeclarationError

-----------------------------------------------------------------------------
(* Properties of the records of parse_content and of the flags of a       *)
(* ValidationResult.                                                       *)

\* C11: a validation result has is_valid = TRUE if and only if none of its
\* diagnostics has severity "error", and a record returned by parse_content
\* has has_error = TRUE if and only if validate applied to its content and
\* start_line gives at least one diagnostic of severity "error".
C11_ValidityIsNoErrorDiagnostic ==
    /\ pc = "validated" => (validation.is_valid <=> error_diagnostics(validation) = 0)
    /\ pc = "parsed" =>
           \A i \in 1..Len(diagrams) :
               diagrams[i].has_error <=> error_diagnostics(revalidate(diagrams[i])) > 0

\* C11 witness: a returned record without error whose validation nevertheless
\* holds a diagnostic (a warning)
C11_Witness ==
    /\ pc = "parsed"
    /\ \E i \in 1..Len(diagrams) :
        /\ ~diagrams[i].has_error
        /\ Len(revalidate(diagrams[i]).errors) > 0

\* C12: the error_message of a record is the message of the first diagnostic
\* of validate applied to its content and start_line, of whatever severity,
\* and it is absent if and only if that validation gives no diagnostic.
C12_ErrorMessageIsFirstDiagnostic ==
    pc = "parsed" =>
        \A i \in 1..Len(diagrams) :
            LET found == revalidate(diagrams[i]).errors
            IN  /\ diagrams[i].error_message = <<>> <=> Len(found) = 0
                /\ Len(found) > 0 => diagrams[i].error_message = <<found[1].message>>

\* C12 witness: a record without error that carries the message of a warning
C12_Witness ==
    /\ pc = "parsed"
    /\ \E i \in 1..Len(diagrams) :
        /\ ~diagrams[i].has_error
        /\ diagrams[i].error_message = <<UnmatchedBracketsMessage>>

\* C13: while the scan is in block mode, every input line other than the
\* closing fence is appended unchanged to the lines collected for the block,
\* so that the content of a record is every line between the fence that
\* entered block mode and the closing fence (or the end of the input).
C13_BlockLinesAppendedVerbatim ==
    [][(pc = "scan" /\ in_code_block /\ line_idx < Len(lines)
            /\ ~is_closing_fence(trim(CurrentLine)))
        => current_diagram_lines' = Append(current_diagram_lines, CurrentLine)]_vars

\* C14: a record is built for a block only if the content collected for it
\* is not empty: no record returned by parse_content has the empty string as
\* its content.
C14_NoEmptyContent ==
    pc = "parsed" => \A i \in 1..Len(diagrams) : diagrams[i].content # <<>>

\* C15: the step taken right after an opening fence, when that fence is the
\* last line of the input or the next line is a closing fence, produces no
\* record and adds nothing to total_errors, and after the immediate close the
\* scan is out of block mode.
C15_EmptyBlockGivesNoRecord ==
    [][(pc = "scan" /\ line_idx >= 1 /\ IsOpeningLine(line_idx)
            /\ (line_idx = Len(lines) \/ IsClosingLine(line_idx + 1)))
        => /\ diagrams' = diagrams
           /\ total_errors' = total_errors
           /\ line_idx < Len(lines) => ~in_code_block']_vars

\* C15 witness: a parse that returned a record for one block and none for an
\* opening fence closed on the next line
C15_Witness ==
    /\ pc = "parsed"
    /\ Len(diagrams) = 1
    /\ total_errors > 0
    /\ ~in_code_block
    /\ \E o \in 1..(Len(lines) - 1) :
        /\ IsOpeningLine(o) /\ IsClosingLine(o + 1)
        /\ diagrams[1].end_line < o

\* the 1-indexed numbers of the opening-fence lines among the first n lines
OpeningLines(n) == {k \in 1..n : IsOpeningLine(k)}

\* C16: there is at most one record per opening-fence line: every record
\* starts on the line after an opening fence, no two records after the same
\* one, so the records are never more than the opening-fence lines read so
\* far, and without an opening fence the list is empty and total_errors = 0.
C16_AtMostOneRecordPerOpeningFence ==
    pc \in {"scan", "parsed"} =>
        LET opened == OpeningLines(line_idx)
        IN  /\ \A i \in 1..Len(diagrams) : diagrams[i].start_line - 1 \in opened
            /\ \A i, j \in 1..Len(diagrams) :
                   diagrams[i].start_line = diagrams[j].start_line => i = j
            /\ Len(diagrams) <= Cardinality(opened)
            /\ opened = {} => (diagrams = <<>> /\ total_errors = 0)

\* C16 witness: a parse that returned as many records as the input has
\* opening fences, two
C16_Witness ==
    /\ pc = "parsed"
    /\ Cardinality(OpeningLines(Len(lines))) = 2
    /\ Len(diagrams) = 2
    /\ total_errors > 0

\* C17: the records are in document order and their line ranges do not
\* overlap: of two consecutive records the first ends before the second
\* starts.
C17_RecordsInDocumentOrder ==
    pc \in {"scan", "parsed"} =>
        \A i \in 1..(Len(diagrams) - 1) : diagrams[i].end_line < diagrams[i + 1].start_line

\* C17 witness: two records from adjacent blocks, the second opened on the
\* line after the first was closed
C17_Witness ==
    /\ pc = "parsed"
    /\ Len(diagrams) = 2
    /\ diagrams[2].start_line = diagrams[1].end_line + 3

\* C18: start_line and end_line of a record are the 1-indexed numbers of the
\* first and the last input line collected into its content: the content is
\* the lines start_line .. end_line of the input joined by newlines, which
\* are end_line - start_line + 1 lines, with 2 <= start_line <= end_line <=
\* the number of input lines.
C18_LineRangeIsCollectedLines ==
    pc = "parsed" =>
        \A i \in 1..Len(diagrams) :
            LET first == diagrams[i].start_line
                last  == diagrams[i].end_line
            IN  /\ 2 <= first
                /\ first <= last
                /\ last <= Len(lines)
                /\ diagrams[i].content = join(SubSeq(lines, first, last), <<"\n">>)

\* C18 witness: a record of two collected lines that does not start on line 2
C18_Witness ==
    /\ pc = "parsed"
    /\ \E i \in 1..Len(diagrams) :
        /\ diagrams[i].start_line > 2
        /\ diagrams[i].end_line = diagrams[i].start_line + 1
        /\ diagrams[i].end_line < Len(lines)

-----------------------------------------------------------------------------
(* Properties of get_parsing_stats.                                        *)

\* the sum of the values of a map of counts
RECURSIVE SumOfCounts(_)
SumOfCounts(counts) ==
    IF DOMAIN counts = {} THEN 0
    ELSE LET t == CHOOSE k \in DOMAIN counts : TRUE
         IN  counts[t] + SumOfCounts([k \in DOMAIN counts \ {t} |-> counts[k]])

\* C19: the statistics of a text give total_diagrams = the number of records
\* parse_content returns for it, total_errors = its total_errors, and a
\* diagram_types map with an entry exactly for each dialect among the
\* records, whose value is the number of records of that dialect; the values
\* sum to total_diagrams.
C19_StatsMatchParseResult ==
    pc = "stats" =>
        \A result \in parse_content(content) :
            LET ds == result.diagrams
            IN  /\ stats.total_diagrams = Len(ds)
                /\ stats.total_errors = result.total_errors
                /\ DOMAIN stats.diagram_types = {ds[i].diagram_type : i \in 1..Len(ds)}
                /\ \A t \in DOMAIN stats.diagram_types :
                       stats.diagram_types[t] =
                           Cardinality({i \in 1..Len(ds) : ds[i].diagram_type = t})
                /\ SumOfCounts(stats.diagram_types) = stats.total_diagrams

\* C19 witness: statistics of a text with two records of one dialect
C19_Witness ==
    /\ pc = "stats"
    /\ stats.total_diagrams = 2
    /\ stats.total_errors > 0
    /\ \E t \in DOMAIN stats.diagram_types : stats.diagram_types[t] = 2

-----------------------------------------------------------------------------
(* Totality of the commands.                                               *)

\* C20: no call fails: every call returns a result, and the line number
\* start_line + i computed for a diagnostic neither aborts the call nor
\* overflows, so a diagnostic's line is never before start_line.
C20_NeverFails ==
    /\ pc # "panicked"
    /\ pc = "validated" =>
           \A i \in 1..Len(validation.errors) : validation.errors[i].line >= arg_start_line

-----------------------------------------------------------------------------
(* Independence of the calls on the shared parser.                         *)

\* what a command returns when it runs alone
SequentialResults(kind, text, first) ==
    CASE kind = "parse" ->
            {[diagrams |-> alone.diagrams, total_errors |-> alone.total_errors] :
             alone \in parse_content(text)}
      [] kind = "detect" -> detect_diagram_type(text)
      [] kind = "validate" -> {validate_diagram(text, first)}

\* C21: calls on the shared parser are independent: whatever calls ran
\* before a call, and however another caller's call interleaves with it, the
\* call returns what it returns when it runs alone on its arguments.
C21_CallsAreIndependent ==
    \A c \in Callers :
        calls[c].pc = "done" =>
            calls[c].result \in
                SequentialResults(calls[c].kind, calls[c].content, calls[c].arg_start_line)

\* C21 witness: caller 1 has returned a record from a parse_content during
\* which caller 2 started a parse_content of another text that is now inside
\* a block
C21_Witness ==
    /\ calls[1].pc = "done" /\ calls[1].kind = "parse"
    /\ Len(calls[1].result.diagrams) = 1
    /\ calls[2].pc = "scan" /\ calls[2].line_idx = 1
    /\ calls[2].scan.in_code_block
    /\ calls[2].content # calls[1].content

-----------------------------------------------------------------------------
(* Properties of the diagnostics of validate_diagram.                      *)

\* C22: the diagnostics of a validation result are ordered: the error for
\* empty content or for the declaration, if any, is the first; the per-line
\* diagnostics follow in increasing line order, and on one line the bracket
\* warning precedes the node-identifier warning.  Every diagnostic has column
\* 1 and a line in start_line .. start_line + n - 1, for n the number of
\* lines of the block (an empty block has its one diagnostic on start_line).
C22_DiagnosticsOrdered ==
    pc = "validated" =>
        LET found == validation.errors
            n     == Len(str_lines(content))
        IN  /\ \A i \in 1..Len(found) :
                /\ found[i].column = 1
                /\ found[i].severity = "error" => i = 1
                /\ IF is_empty_content(content)
                   THEN found[i].line = arg_start_line
                   ELSE found[i].line \in arg_start_line..(arg_start_line + n - 1)
            /\ \A i \in 1..(Len(found) - 1) :
                found[i].severity = "warning" =>
                    \/ found[i].line < found[i + 1].line
                    \/ /\ found[i].line = found[i + 1].line
                       /\ found[i].message = UnmatchedBracketsMessage
                       /\ found[i + 1].message = InvalidNodeIdMessage

\* the bracket characters of a line, in order
BracketChars(line) ==
    SelectSeq(line, LAMBDA ch : ch \in {"(", ")", "[", "]", "{", "}"})

\* an opener and the closer of its family
MatchingPair(open, close) ==
    <<open, close>> \in {<<"(", ")">>, <<"[", "]">>, <<"{", "}">>}

\* a sequence of bracket characters is well nested when it is empty or
\* removing some adjacent matching pair leaves a well-nested sequence
RECURSIVE WellNested(_)
WellNested(s) ==
    \/ s = <<>>
    \/ \E i \in 1..(Len(s) - 1) :
        /\ MatchingPair(s[i], s[i + 1])
        /\ WellNested(SubSeq(s, 1, i - 1) \o SubSeq(s, i + 2, Len(s)))

\* the diagnostics with the given message among those of the line at 0-based
\* index i of the validated text
WarningsForLine(message, i) ==
    {k \in 1..Len(validation.errors) :
        /\ validation.errors[k].message = message
        /\ validation.errors[k].line = wrapping_add(arg_start_line, i)}

\* C23: the warning "Unmatched brackets detected" is emitted for a line of
\* the block if and only if the bracket characters of that line alone are not
\* well nested; nothing is carried from one line to the next, and a line gets
\* at most one such warning.
C23_UnmatchedBracketsPerLine ==
    (pc = "validated" /\ ~is_empty_content(content)) =>
        LET ls == str_lines(content)
        IN  \A i \in 0..(Len(ls) - 1) :
                Cardinality(WarningsForLine(UnmatchedBracketsMessage, i)) =
                    IF WellNested(BracketChars(ls[i + 1])) THEN 0 ELSE 1

\* C23 witness: a bracket opened on one line and closed on the next, flagged
\* on both lines
C23_Witness ==
    /\ pc = "validated"
    /\ Len(str_lines(content)) = 2
    /\ BracketChars(str_lines(content)[1]) = <<"[">>
    /\ BracketChars(str_lines(content)[2]) = <<"]">>
    /\ Cardinality(WarningsForLine(UnmatchedBracketsMessage, 0)) = 1
    /\ Cardinality(WarningsForLine(UnmatchedBracketsMessage, 1)) = 1

\* the last position of the run of identifier characters that holds p
RECURSIVE TokenEnd(_, _)
TokenEnd(line, p) ==
    IF p < Len(line) /\ IsIdChar(line[p + 1]) THEN TokenEnd(line, p + 1) ELSE p

\* the identifiers of a line, each as <<p, e>>: a letter or underscore
\* followed by letters, digits and underscores, not part of a longer word
Identifiers(line) ==
    {<<p, TokenEnd(line, p)>> :
        p \in {q \in 1..Len(line) :
                  IsIdStart(line[q]) /\ (q = 1 \/ ~IsIdChar(line[q - 1]))}}

\* the identifier is longer than 50 characters, contains "--" or starts
\* with "__"
SuspiciousId(id) ==
    \/ Len(id) > 50
    \/ \E i \in 1..(Len(id) - 1) : id[i] = "-" /\ id[i + 1] = "-"
    \/ (Len(id) >= 2 /\ id[1] = "_" /\ id[2] = "_")

\* "[" or "(" is the character right after position e
BracketRightAfter(line, e) == e < Len(line) /\ line[e + 1] \in {"[", "("}

\* "[" or "(" is the first character after position e that is not white space
BracketAfterBlanks(line, e) ==
    \E q \in (e + 1)..Len(line) :
        /\ line[q] \in {"[", "("}
        /\ \A i \in (e + 1)..(q - 1) : is_whitespace(line[i])

\* C24 as stated: the warning "Invalid characters in node ID" is emitted for
\* a line if and only if the line holds an identifier immediately followed by
\* "[" or "(" that is longer than 50 characters, contains "--" or starts
\* with "__".
C24_InvalidNodeIdImmediatelyFollowed ==
    (pc = "validated" /\ ~is_empty_content(content)) =>
        LET ls == str_lines(content)
        IN  \A i \in 0..(Len(ls) - 1) :
                WarningsForLine(InvalidNodeIdMessage, i) # {} <=>
                    \E pe \in Identifiers(ls[i + 1]) :
                        /\ BracketRightAfter(ls[i + 1], pe[2])
                        /\ SuspiciousId(SubSeq(ls[i + 1], pe[1], pe[2]))

\* C24 amended: the warning "Invalid characters in node ID" is emitted for a
\* line, once, if and only if the line holds an identifier followed, after
\* optional white space, by "[" or "(" that is longer than 50 characters,
\* contains "--" or starts with "__".
C24_InvalidNodeIdBeforeBracket ==
    (pc = "validated" /\ ~is_empty_content(content)) =>
        LET ls == str_lines(content)
        IN  \A i \in 0..(Len(ls) - 1) :
                Cardinality(WarningsForLine(InvalidNodeIdMessage, i)) =
                    IF \E pe \in Identifiers(ls[i + 1]) :
                           /\ BracketAfterBlanks(ls[i + 1], pe[2])
                           /\ SuspiciousId(SubSeq(ls[i + 1], pe[1], pe[2]))
                    THEN 1 ELSE 0

\* C24 witness: a warning for an identifier that starts with "__" and is
\* separated from its bracket by a blank
C24_Witness ==
    /\ pc = "validated"
    /\ \E i \in 0..(Len(str_lines(content)) - 1) :
        LET line == str_lines(content)[i + 1]
        IN  /\ WarningsForLine(InvalidNodeIdMessage, i) # {}
            /\ \E pe \in Identifiers(line) :
                /\ SuspiciousId(SubSeq(line, pe[1], pe[2]))
                /\ BracketAfterBlanks(line, pe[2])
                /\ ~BracketRightAfter(line, pe[2])

-----------------------------------------------------------------------------
(* Fence lines met out of turn.                                            *)

\* C25: an opening-fence line read while the scan is in block mode restarts
\* the block: the lines collected so far are dropped, no record is produced
\* and no error counted, start_line becomes the number of the line after the
\* new fence, and the scan stays in block mode.  A closing-fence line read
\* outside block mode changes nothing.
C25_FenceOutOfTurn ==
    [][(pc = "scan" /\ line_idx < Len(lines)) =>
        /\ (in_code_block /\ is_opening_fence(trim(CurrentLine))) =>
               /\ current_diagram_lines' = <<>>
               /\ diagrams' = diagrams
               /\ total_errors' = total_errors
               /\ start_line' = (line_idx + 1) + 1
               /\ in_code_block'
        /\ (~in_code_block /\ is_closing_fence(trim(CurrentLine))) =>
               UNCHANGED <<in_code_block, current_diagram_lines, start_line, diagrams,
                           total_errors>>]_vars

\* C25 witness: a parse that returned after a closing fence outside a block
\* and a block restarted by a second opening fence: the one record starts
\* after the second fence and the lines before it are in no record
C25_Witness ==
    /\ pc = "parsed"
    /\ Len(diagrams) = 1
    /\ \E o \in 1..Len(lines), r \in 1..Len(lines) :
        /\ o + 1 < r
        /\ IsClosingLine(1)
        /\ IsOpeningLine(o) /\ IsOpeningLine(r)
        /\ \A k \in (o + 1)..(r - 1) : ~IsOpeningLine(k) /\ ~IsClosingLine(k)
        /\ diagrams[1].start_line = r + 1

-----------------------------------------------------------------------------
(* Agreement of detect_diagram_type and validate_diagram, and of            *)
(* total_errors and has_error.                                             *)

\* validate reports an error "Invalid diagram declaration ..." for the record
DeclarationRejected(diagram) ==
    \E k \in 1..Len(revalidate(diagram).errors) :
        /\ revalidate(diagram).errors[k].severity = "error"
        /\ starts_with(revalidate(diagram).errors[k].message,
                       <<"I", "n", "v", "a", "l", "i", "d", " ", "d", "i", "a", "g", "r", "a", "m", " ", "d", "e", "c", "l", "a", "r", "a", "t", "i", "o", "n">>)

\* C26: classification and validation agree on the declaration line: the
\* dialect of a non-blank block is "unknown" if and only if validate reports
\* an "Invalid diagram declaration" error for it, so a record has dialect
\* "unknown" if and only if it has has_error = TRUE.
C26_UnknownIffDeclarationError ==
    pc = "parsed" =>
        \A i \in 1..Len(diagrams) :
            /\ ~is_empty_content(diagrams[i].content) =>
                   (diagrams[i].diagram_type = "unknown" <=> DeclarationRejected(diagrams[i]))
            /\ diagrams[i].diagram_type = "unknown" <=> diagrams[i].has_error

\* the records that have has_error = TRUE
RecordsWithError == {i \in 1..Len(diagrams) : diagrams[i].has_error}

\* C27: total_errors is 0 if and only if no record has has_error = TRUE, and
\* total_errors is at least the number of records with has_error = TRUE.
C27_TotalErrorsAndHasError ==
    pc \in {"scan", "parsed"} =>
        /\ total_errors = 0 <=> RecordsWithError = {}
        /\ total_errors >= Cardinality(RecordsWithError)

\* C27 witness: a parse that returned a record with an error and one without,
\* with more counted errors than records with an error
C27_Witness ==
    /\ pc = "parsed"
    /\ Len(diagrams) = 2
    /\ Cardinality(RecordsWithError) = 1
    /\ total_errors > 1

====
